---- MODULE Spec2Model ----
(***************************************************************************)
(* Model of the MCP server of src/index.ts: the tool catalog, the          *)
(* CallTool dispatcher with its two handlers (openai_chat, openai_plan),   *)
(* the message translation of each handler and the response envelope.      *)
(*                                                                         *)
(* JavaScript values are modelled as follows.                              *)
(*   - an object is a record holding exactly the properties that are       *)
(*     present; a missing property is a missing field (reads as undefined) *)
(*   - a value whose runtime type the code tests (message content, the     *)
(*     messages argument) is tagged by its type: [str |-> s] is a string,  *)
(*     [arr |-> seq] an array, [num |-> n] a number                        *)
(*   - model and reasoning_effort are strings; Undefined stands for the    *)
(*     value undefined where the code can hold it in such a variable       *)
(***************************************************************************)
EXTENDS Integers, Sequences, FiniteSets, TLC

\* ------------------------------------------------------------------ bounds
MaxMsgs == 2
MaxInFlight == 2

\* --------------------------------------------------------------- constants
Undefined == "<undefined>"

SUPPORTED_MODELS == <<"gpt-4o", "gpt-4o-mini", "o1-preview", "o1-mini", "o1", "o3-mini">>
DEFAULT_CHAT_MODEL == "gpt-4o"
DEFAULT_PLAN_MODEL == "o1"
REASONING_EFFORT_LEVELS == <<"low", "medium", "high">>
DEFAULT_REASONING_EFFORT == "low"

\* The literal default of the destructuring of the openai_plan arguments.
PlanHandlerDefaultModel == "o1-2024-12-17"
\* The literal array the openai_plan handler validates the model against.
PlanValidatedModels == <<"o1-preview", "o1-mini", "o1-2024-12-17">>

\* The fixed instructional document: an array of one text part (its text is
\* abbreviated here, it is static data).
DEFAULT_DEVELOPER_CONTENT ==
    [arr |-> << [text |-> "# Instructions ... multi-agent system coordinator ...",
                 type |-> "text"] >>]

NoResponseText == "No response received"
ErrorPrefix == "OpenAI API error: "

\* The tool catalog, reduced to the parts of each inputSchema that describe
\* the arguments: required names, role enum, model enum and defaults.
TOOLS ==
    << [name |-> "openai_chat",
        required |-> {"messages"},
        roleEnum |-> {"system", "user", "assistant"},
        modelEnum |-> {SUPPORTED_MODELS[i] : i \in 1..Len(SUPPORTED_MODELS)},
        modelDefault |-> DEFAULT_CHAT_MODEL],
       [name |-> "openai_plan",
        required |-> {"messages"},
        roleEnum |-> {"system", "user", "assistant", "developer"},
        modelEnum |-> {"o1-preview", "o1-mini", "o1", "o3-mini"},
        modelDefault |-> DEFAULT_PLAN_MODEL,
        effortEnum |-> {REASONING_EFFORT_LEVELS[i] : i \in 1..Len(REASONING_EFFORT_LEVELS)},
        effortDefault |-> DEFAULT_REASONING_EFFORT,
        formatDefault |-> [type |-> "text"]] >>

\* ----------------------------------------------------- JavaScript helpers
SeqToSet(s) == {s[i] : i \in 1..Len(s)}

\* Array.prototype.includes on an array of strings
Includes(arr, v) == \E i \in 1..Len(arr) : arr[i] = v

\* Array.prototype.join on an array of strings
RECURSIVE Join(_, _)
Join(arr, sep) ==
    IF Len(arr) = 0 THEN ""
    ELSE IF Len(arr) = 1 THEN arr[1]
    ELSE arr[1] \o sep \o Join(Tail(arr), sep)

\* template-literal formatting of a model variable
ToStr(v) == IF v = Undefined THEN "undefined" ELSE v

IsString(v) == "str" \in DOMAIN v
IsArray(v) == "arr" \in DOMAIN v

\* object destructuring: the property, or the default when it is undefined
Prop(obj, name, default) == IF name \in DOMAIN obj THEN obj[name] ELSE default

\* no value
None == [none |-> TRUE]

\* results of the synchronous part of a handler
Throws(message) == [throws |-> message]
IsThrow(r) == "throws" \in DOMAIN r

\* what a map whose callback may throw evaluates to: the array of the
\* results, or the first throw of the callback
MapResult(out) ==
    LET bad == {i \in 1..Len(out) : IsThrow(out[i])}
    IN  IF bad = {} THEN [messages |-> out]
        ELSE out[CHOOSE i \in bad : \A j \in bad : i <= j]

\* rawMessages.map throws a TypeError when rawMessages is not an array
NotAnArray(arguments) ==
    IF "messages" \notin DOMAIN arguments
    THEN Throws("Cannot read properties of undefined (reading 'map')")
    ELSE IF ~IsArray(arguments.messages)
    THEN Throws("rawMessages.map is not a function")
    ELSE None

\* ------------------------------------------------------- response envelope
SuccessEnvelope(text) == [content |-> << [type |-> "text", text |-> text] >>]

\* mutant: the catch block forgets the isError flag
ErrorEnvelope_NoFlag(message) ==
    [content |-> << [type |-> "text", text |-> ErrorPrefix \o message] >>]

ErrorEnvelope(message) ==
    [content |-> << [type |-> "text", text |-> ErrorPrefix \o message] >>,
     isError |-> TRUE]

\* mutant: the text of the last choice instead of the first
FirstChoiceContent_Last(completion) ==
    IF Len(completion.choices) = 0 THEN Undefined
    ELSE IF "message" \notin DOMAIN completion.choices[Len(completion.choices)] THEN Undefined
    ELSE Prop(completion.choices[Len(completion.choices)].message, "content", Undefined)

\* completion.choices[0]?.message?.content
FirstChoiceContent(completion) ==
    IF Len(completion.choices) = 0 THEN Undefined
    ELSE IF "message" \notin DOMAIN completion.choices[1] THEN Undefined
    ELSE Prop(completion.choices[1].message, "content", Undefined)

\* the left operand of || is falsy
Falsy(v) == v = Undefined \/ v = ""

\* completion.choices[0]?.message?.content || "No response received"
ResponseText(completion) ==
    IF Falsy(FirstChoiceContent(completion)) THEN NoResponseText
    ELSE FirstChoiceContent(completion)

\* --------------------------------------------------------------- openai_chat
\* mutant: a developer message keeps its role, as on the openai_plan path
ChatTranslate_KeepsDeveloperRole(msg) ==
    IF msg.role = "developer"
    THEN IF IsString(msg.content)
         THEN [role |-> "developer", content |-> msg.content]
         ELSE IF IsArray(msg.content)
              THEN [role |-> "developer",
                    content |-> [str |-> Join([i \in 1..Len(msg.content.arr) |->
                                                  msg.content.arr[i].text], "\n")]]
              ELSE Throws("msg.content.map is not a function")
    ELSE [role |-> msg.role, content |-> msg.content]

\* mutant: array content is joined for every role
ChatTranslate_JoinsAll(msg) ==
    IF IsArray(msg.content)
    THEN [role |-> IF msg.role = "developer" THEN "assistant" ELSE msg.role,
          content |-> [str |-> Join([i \in 1..Len(msg.content.arr) |->
                                        msg.content.arr[i].text], "\n")]]
    ELSE IF msg.role = "developer"
    THEN IF IsString(msg.content)
         THEN [role |-> "assistant", content |-> msg.content]
         ELSE Throws("msg.content.map is not a function")
    ELSE [role |-> msg.role, content |-> msg.content]

\* the callback of rawMessages.map in the openai_chat case
ChatTranslate(msg) ==
    IF msg.role = "developer"
    THEN IF IsString(msg.content)
         THEN [role |-> "assistant", content |-> msg.content]
         ELSE IF IsArray(msg.content)
              THEN [role |-> "assistant",
                    content |-> [str |-> Join([i \in 1..Len(msg.content.arr) |->
                                                  msg.content.arr[i].text], "\n")]]
              ELSE Throws("msg.content.map is not a function")
    ELSE [role |-> msg.role, content |-> msg.content]

\* the model the openai_chat handler validates and sends
ChatModel(arguments) == Prop(arguments, "model", Undefined)

\* mutant: the chat call leaves sampling and length to the platform defaults
ChatParams_NoLimits(messages, model) == [messages |-> messages, model |-> model]

\* the argument of openai.chat.completions.create in the openai_chat case
ChatParams(messages, model) ==
    [messages |-> messages, model |-> model,
     temperature |-> "0.7", max_tokens |-> 2000]

\* mutant: the translated messages come out in reverse order
ChatMessages_Reversed(arguments) ==
    IF NotAnArray(arguments) # None THEN NotAnArray(arguments)
    ELSE LET raw == arguments.messages.arr
         IN  MapResult([i \in 1..Len(raw) |-> ChatTranslate(raw[Len(raw) + 1 - i])])

\* const messages = rawMessages.map(...) of the openai_chat case
ChatMessages(arguments) ==
    IF NotAnArray(arguments) # None THEN NotAnArray(arguments)
    ELSE LET raw == arguments.messages.arr
         IN  MapResult([i \in 1..Len(raw) |-> ChatTranslate(raw[i])])

\* the try block of the openai_chat case up to the await: a thrown Error
\* message, or the parameters of the downstream call
ChatSync(params) ==
    IF "arguments" \notin DOMAIN params
    THEN Throws("Cannot destructure property 'messages' of 'request.params.arguments' as it is undefined.")
    ELSE LET model == ChatModel(params.arguments)
             tr == ChatMessages(params.arguments)
         IN  IF ~Includes(SUPPORTED_MODELS, model)
             THEN Throws("Unsupported model: " \o ToStr(model) \o ". Must be one of: "
                         \o Join(SUPPORTED_MODELS, ", "))
             ELSE IF IsThrow(tr) THEN tr
             ELSE [call |-> ChatParams(tr.messages, model)]

\* --------------------------------------------------------------- openai_plan
\* mutant: a message no native rule matches is rejected instead of sent
PlanTranslate_FallbackThrows(msg) ==
    IF msg.role = "developer"
    THEN [role |-> "developer", content |-> DEFAULT_DEVELOPER_CONTENT]
    ELSE IF IsString(msg.content) /\ msg.role \in {"system", "user", "assistant"}
    THEN [role |-> msg.role, content |-> msg.content]
    ELSE IF IsArray(msg.content) /\ msg.role \in {"user", "assistant"}
    THEN [role |-> msg.role, content |-> msg.content]
    ELSE Throws("Invalid content format")

\* mutant: a developer message with string content keeps the caller's content
PlanTranslate_KeepsDeveloper(msg) ==
    IF msg.role = "developer" /\ ~IsString(msg.content)
    THEN [role |-> "developer", content |-> DEFAULT_DEVELOPER_CONTENT]
    ELSE IF IsString(msg.content)
    THEN IF msg.role \in {"system", "user", "assistant", "developer"}
         THEN [role |-> msg.role, content |-> msg.content]
         ELSE [role |-> "user", content |-> msg.content]
    ELSE IF IsArray(msg.content) /\ msg.role \in {"user", "assistant"}
    THEN [role |-> msg.role, content |-> msg.content]
    ELSE [role |-> "user", content |-> [str |-> "Invalid content format"]]

\* the callback of rawMessages.map in the openai_plan case
PlanTranslate(msg) ==
    LET fallback == [role |-> "user",
                     content |-> IF IsString(msg.content) THEN msg.content
                                 ELSE [str |-> "Invalid content format"]]
    IN  IF msg.role = "developer"
        THEN [role |-> "developer", content |-> DEFAULT_DEVELOPER_CONTENT]
        ELSE IF IsString(msg.content)
        THEN IF msg.role = "system" THEN [role |-> "system", content |-> msg.content]
             ELSE IF msg.role = "user" THEN [role |-> "user", content |-> msg.content]
             ELSE IF msg.role = "assistant" THEN [role |-> "assistant", content |-> msg.content]
             ELSE fallback
        ELSE IF IsArray(msg.content)
        THEN LET contentParts == [arr |-> [i \in 1..Len(msg.content.arr) |->
                                              [type |-> msg.content.arr[i].type,
                                               text |-> msg.content.arr[i].text]]]
             IN  IF msg.role = "user" THEN [role |-> "user", content |-> contentParts]
                 ELSE IF msg.role = "assistant" THEN [role |-> "assistant", content |-> contentParts]
                 ELSE fallback
        ELSE fallback

\* const messages = rawMessages.map(...) of the openai_plan case
PlanMessages(arguments) ==
    IF NotAnArray(arguments) # None THEN NotAnArray(arguments)
    ELSE LET raw == arguments.messages.arr
         IN  MapResult([i \in 1..Len(raw) |-> PlanTranslate(raw[i])])

\* mutant: the handler defaults to the model the catalog advertises
PlanModel_CatalogDefault(arguments) == Prop(arguments, "model", DEFAULT_PLAN_MODEL)

\* the model the openai_plan handler validates and sends
PlanModel(arguments) == Prop(arguments, "model", PlanHandlerDefaultModel)

\* mutant: reasoning_effort has no default
PlanReasoningEffort_NoDefault(arguments) == Prop(arguments, "reasoning_effort", "")

PlanReasoningEffort(arguments) ==
    Prop(arguments, "reasoning_effort", DEFAULT_REASONING_EFFORT)

PlanResponseFormat(arguments) ==
    Prop(arguments, "response_format", [type |-> "text"])

\* apiConfig: reasoning_effort is added only when it is truthy
ApiConfig(messages, model, reasoning_effort) ==
    LET base == [messages |-> messages, model |-> model,
                 response_format |-> [type |-> "text"]]
    IN  IF Falsy(reasoning_effort) THEN base
        ELSE [messages |-> messages, model |-> model,
              response_format |-> [type |-> "text"],
              reasoning_effort |-> reasoning_effort]

\* mutant: the validation uses the model enum of the catalog
PlanModelValid_CatalogEnum(model) == Includes(<<"o1-preview", "o1-mini", "o1", "o3-mini">>, model)

\* the model validation of the openai_plan case
PlanModelValid(model) == Includes(PlanValidatedModels, model)

\* the try block of the openai_plan case up to the await
PlanSync(params) ==
    IF "arguments" \notin DOMAIN params
    THEN Throws("Cannot destructure property 'messages' of 'request.params.arguments' as it is undefined.")
    ELSE LET model == PlanModel(params.arguments)
             tr == PlanMessages(params.arguments)
         IN  IF ~PlanModelValid(model)
             THEN Throws("Unsupported model for reasoning: " \o ToStr(model)
                         \o ". Must be one of: o1-preview, o1-mini, o1-2024-12-17")
             ELSE IF IsThrow(tr) THEN tr
             ELSE [call |-> ApiConfig(tr.messages, model,
                                      PlanReasoningEffort(params.arguments))]

\* the McpError of the default case
UnknownToolError(name) == [code |-> "MethodNotFound", message |-> "Unknown tool: " \o name]

\* ------------------------------------------------------------------ inputs
Roles == {"system", "user", "assistant", "developer", "tool"}
TextPart(t) == [type |-> "text", text |-> t]
Contents == { [str |-> "hi"],
              [arr |-> << TextPart("a"), TextPart("b") >>],
              [num |-> 42] }
Messages == [role : Roles, content : Contents]
MsgSeqs == UNION {[1..n -> Messages] : n \in 0..MaxMsgs}
ShortSeqs == {<<>>, << [role |-> "user", content |-> [str |-> "hi"]] >>,
              << [role |-> "developer", content |-> [str |-> "hi"]] >>}

ModelInputs == SeqToSet(SUPPORTED_MODELS) \cup {"o1-2024-12-17", "gpt-3.5-turbo"}
EffortInputs == {"low", "high", ""}
FormatInputs == {[type |-> "text"], [type |-> "json_object"]}
\* values of properties the handlers never read
TemperatureInputs == {"0", "1.5"}
MaxTokensInputs == {50}

\* the objects obtained from obj by leaving the property out or setting it
Optional(objs, name, values) ==
    objs \cup {(name :> v) @@ o : o \in objs, v \in values}

\* the objects obtained from objs by also passing sampling and length options
WithSamplingOptions(objs) ==
    Optional(Optional(objs, "temperature", TemperatureInputs),
             "max_tokens", MaxTokensInputs)

ChatArguments ==
    Optional({[messages |-> [arr |-> m]] : m \in MsgSeqs}, "model", ModelInputs)
    \cup WithSamplingOptions(
             Optional(Optional({[messages |-> [arr |-> m], model |-> md] :
                                    m \in ShortSeqs, md \in {"gpt-4o", "o1"}},
                               "reasoning_effort", {"high"}),
                      "response_format", {[type |-> "json_object"]}))
    \cup {[model |-> "gpt-4o"], [messages |-> [str |-> "hi"], model |-> "gpt-4o"]}

PlanArguments ==
    Optional({[messages |-> [arr |-> m]] : m \in MsgSeqs}, "model", ModelInputs)
    \cup Optional(Optional(Optional({[messages |-> [arr |-> m]] : m \in ShortSeqs},
                                    "model", ModelInputs),
                           "reasoning_effort", EffortInputs),
                  "response_format", FormatInputs)
    \cup WithSamplingOptions(
             Optional({[messages |-> [arr |-> m], model |-> "o1-mini"] : m \in ShortSeqs},
                      "reasoning_effort", EffortInputs))
    \cup {[model |-> "o1-mini"], [messages |-> [str |-> "hi"], model |-> "o1-mini"]}

\* params of the CallTool requests a client sends
CallParams ==
    {[name |-> "openai_chat", arguments |-> a] : a \in ChatArguments}
    \cup {[name |-> "openai_plan", arguments |-> a] : a \in PlanArguments}
    \cup {[name |-> "openai_chat"], [name |-> "openai_plan"]}
    \cup {[name |-> "unknown_tool",
           arguments |-> [messages |-> [arr |-> <<>>], model |-> "gpt-4o"]]}

\* the requests of a client that sends several requests without waiting
PipelinedParams ==
    {[name |-> "openai_chat",
      arguments |-> [messages |-> [arr |-> m], model |-> "gpt-4o"]] : m \in ShortSeqs}
    \cup {[name |-> "openai_plan",
           arguments |-> [messages |-> [arr |-> m], model |-> "o1-mini"]] : m \in ShortSeqs}
    \cup {[name |-> "openai_plan", arguments |-> [messages |-> [arr |-> <<>>], model |-> "o1"]],
          [name |-> "unknown_tool", arguments |-> [messages |-> [arr |-> <<>>]]]}

\* what the downstream completion call settles with: a completion object
\* (choices is always an array), or a raised Error with its message
Completions ==
    { [choices |-> <<>>],
      [choices |-> << [index |-> 0] >>],
      [choices |-> << [index |-> 0, message |-> [role |-> "assistant"]] >>],
      [choices |-> << [index |-> 0, message |-> [role |-> "assistant", content |-> ""]] >>],
      [choices |-> << [index |-> 0, message |-> [role |-> "assistant", content |-> "Hello"]] >>],
      [choices |-> << [index |-> 0, message |-> [role |-> "assistant", content |-> "Hello"]],
                      [index |-> 1, message |-> [role |-> "assistant", content |-> "Other"]] >>],
      [raises |-> "Connection error."] }

\* ------------------------------------------------------------------- state
Handlers == 1..MaxInFlight

VARIABLES
    pc,          \* per handler invocation: "idle", "awaiting", "returned", "thrown"
    req,         \* the request the invocation handles
    sent,        \* the parameters of the downstream call it issued, if any
    completion,  \* what its downstream call settled with, if it has
    resp,        \* what the invocation returned (or threw)
    calls        \* how many times the invocation called openai.chat.completions.create

vars == <<pc, req, sent, completion, resp, calls>>

Init ==
    /\ pc = [h \in Handlers |-> "idle"]
    /\ req = [h \in Handlers |-> None]
    /\ sent = [h \in Handlers |-> None]
    /\ completion = [h \in Handlers |-> None]
    /\ resp = [h \in Handlers |-> None]
    /\ calls = [h \in Handlers |-> 0]

\* mutant: the switch has no default case and unknown names fall into a handler
Dispatch_NoDefault(params) ==
    IF params.name = "openai_plan" THEN PlanSync(params) ELSE ChatSync(params)

\* the switch on request.params.name, up to the first await or the return
Dispatch(params) ==
    IF params.name = "openai_chat" THEN ChatSync(params)
    ELSE IF params.name = "openai_plan" THEN PlanSync(params)
    ELSE [mcpError |-> UnknownToolError(params.name)]

\* mutant: the parameters are kept in a variable of module scope, which every
\* running invocation reads
InvocationLocal_Shared(f, h, v) == [g \in DOMAIN f |-> IF f[g] = None /\ g # h THEN f[g] ELSE v]

\* messages and the call parameters are const locals of the invocation:
\* binding them in invocation h touches no other invocation
InvocationLocal(f, h, v) == [f EXCEPT ![h] = v]

\* the CallTool handler runs for a request until it suspends at the await of
\* the downstream call, returns the error envelope of its catch block, or
\* throws the McpError of the default case
CallTool(h, params) ==
    /\ pc[h] = "idle"
    /\ req' = [req EXCEPT ![h] = [method |-> "tools/call", params |-> params]]
    /\ LET r == Dispatch(params)
       IN  IF "call" \in DOMAIN r
           THEN /\ pc' = [pc EXCEPT ![h] = "awaiting"]
                /\ sent' = InvocationLocal(sent, h, r.call)
                /\ calls' = [calls EXCEPT ![h] = @ + 1]
                /\ UNCHANGED resp
           ELSE IF IsThrow(r)
           THEN /\ pc' = [pc EXCEPT ![h] = "returned"]
                /\ resp' = [resp EXCEPT ![h] = ErrorEnvelope(r.throws)]
                /\ UNCHANGED <<sent, calls>>
           ELSE /\ pc' = [pc EXCEPT ![h] = "thrown"]
                /\ resp' = [resp EXCEPT ![h] = r.mcpError]
                /\ UNCHANGED <<sent, calls>>
    /\ UNCHANGED completion

\* the ListTools handler
ListTools(h) ==
    /\ pc[h] = "idle"
    /\ req' = [req EXCEPT ![h] = [method |-> "tools/list"]]
    /\ pc' = [pc EXCEPT ![h] = "returned"]
    /\ resp' = [resp EXCEPT ![h] = [tools |-> TOOLS]]
    /\ UNCHANGED <<sent, completion, calls>>

\* mutant: a failed downstream call is issued once more before giving up
Settle_Retry(h, c) ==
    /\ pc[h] = "awaiting"
    /\ completion' = [completion EXCEPT ![h] = c]
    /\ IF "raises" \in DOMAIN c /\ calls[h] < 2
       THEN /\ calls' = [calls EXCEPT ![h] = @ + 1]
            /\ UNCHANGED <<pc, resp>>
       ELSE /\ resp' = [resp EXCEPT ![h] = IF "raises" \in DOMAIN c
                                          THEN ErrorEnvelope(c.raises)
                                          ELSE SuccessEnvelope(ResponseText(c))]
            /\ pc' = [pc EXCEPT ![h] = "returned"]
            /\ UNCHANGED calls
    /\ UNCHANGED <<req, sent>>

\* the downstream call settles and the handler resumes after the await: the
\* success envelope, or the error envelope of the catch block
Settle(h, c) ==
    /\ pc[h] = "awaiting"
    /\ completion' = [completion EXCEPT ![h] = c]
    /\ resp' = [resp EXCEPT ![h] = IF "raises" \in DOMAIN c
                                   THEN ErrorEnvelope(c.raises)
                                   ELSE SuccessEnvelope(ResponseText(c))]
    /\ pc' = [pc EXCEPT ![h] = "returned"]
    /\ UNCHANGED <<req, sent, calls>>

\* the transport has sent the result of the invocation; nothing of it is kept
Reply(h) ==
    /\ pc[h] \in {"returned", "thrown"}
    /\ pc' = [pc EXCEPT ![h] = "idle"]
    /\ req' = [req EXCEPT ![h] = None]
    /\ sent' = [sent EXCEPT ![h] = None]
    /\ completion' = [completion EXCEPT ![h] = None]
    /\ resp' = [resp EXCEPT ![h] = None]
    /\ calls' = [calls EXCEPT ![h] = 0]

\* a client that waits for the response before it sends its next request
NoneInFlight == \A h \in Handlers : pc[h] = "idle"

Next ==
    \E h \in Handlers :
        \/ NoneInFlight /\ \E p \in CallParams : CallTool(h, p)
        \/ NoneInFlight /\ ListTools(h)
        \/ \E c \in Completions : Settle(h, c)
        \/ Reply(h)

Spec == Init /\ [][Next]_vars

\* a client that sends requests without waiting for the responses
NextPipelined ==
    \E h \in Handlers :
        \/ \E p \in PipelinedParams : CallTool(h, p)
        \/ ListTools(h)
        \/ \E c \in Completions : Settle(h, c)
        \/ Reply(h)

SpecPipelined == Init /\ [][NextPipelined]_vars

TypeOK ==
    /\ pc \in [Handlers -> {"idle", "awaiting", "returned", "thrown"}]
    /\ \A h \in Handlers : pc[h] = "idle" <=> req[h] = None

\* ------------------------------------------------- vocabulary of the claims
IsCall(h, tool) ==
    /\ pc[h] # "idle"
    /\ req[h].method = "tools/call"
    /\ req[h].params.name = tool

HasArguments(h) == "arguments" \in DOMAIN req[h].params
Args(h) == req[h].params.arguments

\* the messages argument is an array (of message objects)
HasMessageArray(h) ==
    /\ HasArguments(h)
    /\ "messages" \in DOMAIN Args(h)
    /\ "arr" \in DOMAIN Args(h).messages
Raw(h) == Args(h).messages.arr

IssuedCall(h) == sent[h] # None
DownstreamReturned(h) == completion[h] # None /\ "choices" \in DOMAIN completion[h]
DownstreamRaised(h) == completion[h] # None /\ "raises" \in DOMAIN completion[h]

IsEnvelope(r) ==
    /\ "content" \in DOMAIN r
    /\ Len(r.content) = 1
    /\ r.content[1].type = "text"
IsSuccess(r) == IsEnvelope(r) /\ "isError" \notin DOMAIN r
IsDomainFailure(r) == IsEnvelope(r) /\ "isError" \in DOMAIN r /\ r.isError = TRUE
StartsWith(str, prefix) ==
    Len(str) >= Len(prefix) /\ SubSeq(str, 1, Len(prefix)) = prefix

\* the first returned choice carries a message text
HasFirstText(c) ==
    /\ Len(c.choices) > 0
    /\ "message" \in DOMAIN c.choices[1]
    /\ "content" \in DOMAIN c.choices[1].message
FirstText(c) == c.choices[1].message.content

\* ------------------------------------------------------------------- C1
\* C1 (as stated): an openai_chat call with a supported model whose
\* downstream call returns normally gets a success envelope whose text is the
\* first choice's message text, the placeholder being substituted only when
\* that text is absent.
C1_Original ==
    \A h \in Handlers :
        (IsCall(h, "openai_chat") /\ DownstreamReturned(h)) =>
            /\ IsSuccess(resp[h])
            /\ resp[h].content[1].text =
                   IF HasFirstText(completion[h]) THEN FirstText(completion[h])
                   ELSE "No response received"

\* C1 (amended): an openai_chat call with a supported model whose downstream
\* call returns normally gets a success envelope (isError absent) whose text
\* is the first choice's message text when that text is present and not the
\* empty string, and the placeholder "No response received" otherwise.
C1_ChatSuccessText ==
    \A h \in Handlers :
        (IsCall(h, "openai_chat") /\ DownstreamReturned(h)) =>
            /\ Args(h).model \in {"gpt-4o", "gpt-4o-mini", "o1-preview", "o1-mini", "o1", "o3-mini"}
            /\ pc[h] = "returned"
            /\ IsSuccess(resp[h])
            /\ resp[h].content[1].text =
                   IF HasFirstText(completion[h]) /\ FirstText(completion[h]) # ""
                   THEN FirstText(completion[h])
                   ELSE "No response received"

C1_Witness ==
    \E h \in Handlers :
        /\ IsCall(h, "openai_chat") /\ DownstreamReturned(h)
        /\ Len(completion[h].choices) = 2
        /\ resp[h].content[1].text = "Hello"

\* ------------------------------------------------------------------- C2
\* the failures of a call: a model outside the set the tool validates
\* against, missing or malformed arguments, a failed downstream call
C2_Failure(h) ==
    \/ ~HasMessageArray(h)
    \/ IsCall(h, "openai_chat") /\
           \/ "model" \notin DOMAIN Args(h)
           \/ Args(h).model \notin {"gpt-4o", "gpt-4o-mini", "o1-preview", "o1-mini", "o1", "o3-mini"}
           \/ \E i \in 1..Len(Raw(h)) :
                  Raw(h)[i].role = "developer" /\ "num" \in DOMAIN Raw(h)[i].content
    \/ IsCall(h, "openai_plan") /\ "model" \in DOMAIN Args(h) /\
           Args(h).model \notin {"o1-preview", "o1-mini", "o1-2024-12-17"}
    \/ DownstreamRaised(h)

\* C2: for openai_chat and openai_plan every failure raised while handling
\* the call is returned as an envelope with isError = true and text
\* "OpenAI API error: <message>"; nothing is thrown out of the handler.
C2_FailuresAreEnveloped ==
    \A h \in Handlers :
        (IsCall(h, "openai_chat") \/ IsCall(h, "openai_plan")) =>
            /\ pc[h] # "thrown"
            /\ C2_Failure(h) =>
                   /\ pc[h] = "returned"
                   /\ IsDomainFailure(resp[h])
                   /\ StartsWith(resp[h].content[1].text, "OpenAI API error: ")
                   /\ Len(resp[h].content[1].text) > Len("OpenAI API error: ")
            /\ DownstreamRaised(h) =>
                   resp[h].content[1].text = "OpenAI API error: " \o completion[h].raises
            /\ (pc[h] = "returned" /\ ~C2_Failure(h)) => IsSuccess(resp[h])

C2_Witness ==
    \E h \in Handlers :
        /\ IsCall(h, "openai_plan") /\ DownstreamRaised(h)
        /\ IsDomainFailure(resp[h])

\* ------------------------------------------------------------------- C3
\* C3: an openai_chat call that gives messages but no model uses the default
\* model gpt-4o: it issues the downstream call with model = "gpt-4o" and
\* returns a success envelope when that call succeeds.
C3_ChatDefaultModel ==
    \A h \in Handlers :
        ( /\ IsCall(h, "openai_chat") /\ HasMessageArray(h)
          /\ "model" \notin DOMAIN Args(h)
          /\ \A i \in 1..Len(Raw(h)) : "str" \in DOMAIN Raw(h)[i].content ) =>
            /\ IssuedCall(h)
            /\ sent[h].model = "gpt-4o"
            /\ DownstreamReturned(h) => IsSuccess(resp[h])

\* ------------------------------------------------------------------- C4
\* C4: every model the catalog advertises for openai_plan (its enum and its
\* default) passes the model validation of the openai_plan handler and
\* reaches the downstream call.
C4_AdvertisedPlanModelsAccepted ==
    \A h \in Handlers :
        ( /\ IsCall(h, "openai_plan") /\ HasMessageArray(h)
          /\ "model" \in DOMAIN Args(h)
          /\ Args(h).model \in TOOLS[2].modelEnum \cup {TOOLS[2].modelDefault} ) =>
            /\ IssuedCall(h)
            /\ sent[h].model = Args(h).model

\* ------------------------------------------------------------------- C5
C5_EffectiveModel(h) ==
    IF "model" \in DOMAIN Args(h) THEN Args(h).model ELSE "o1-2024-12-17"

C6_DeveloperContentFixed ==
    \A h \in Handlers :
        (IsCall(h, "openai_plan") /\ IssuedCall(h)) =>
            \A i \in 1..Len(Raw(h)) :
                Raw(h)[i].role = "developer" =>
                    /\ i \in 1..Len(sent[h].messages)
                    /\ sent[h].messages[i].role = "developer"
                    /\ sent[h].messages[i].content = DEFAULT_DEVELOPER_CONTENT

C6_Witness ==
    \E h \in Handlers :
        /\ IsCall(h, "openai_plan") /\ IssuedCall(h)
        /\ \E i, j \in 1..Len(Raw(h)) :
               /\ Raw(h)[i].role = "developer" /\ "str" \in DOMAIN Raw(h)[i].content
               /\ Raw(h)[j].role = "developer" /\ "num" \in DOMAIN Raw(h)[j].content
               /\ sent[h].messages[j].content = DEFAULT_DEVELOPER_CONTENT

\* ------------------------------------------------------------------- C7
\* C7: a CallTool request whose name is neither openai_chat nor openai_plan
\* fails with a method-not-found error thrown out of the handler: no
\* envelope is returned for it and no downstream call is made.
C7_UnknownToolThrows ==
    \A h \in Handlers :
        ( /\ pc[h] # "idle" /\ req[h].method = "tools/call"
          /\ req[h].params.name \notin {"openai_chat", "openai_plan"} ) =>
            /\ pc[h] = "thrown"
            /\ "code" \in DOMAIN resp[h] /\ resp[h].code = "MethodNotFound"
            /\ ~IsEnvelope(resp[h])
            /\ ~IssuedCall(h)

C7_Witness ==
    \E h \in Handlers :
        /\ pc[h] = "thrown"
        /\ req[h].params.name = "unknown_tool"
        /\ resp[h].message = "Unknown tool: unknown_tool"

C9_Translator(h, msg) ==
    IF IsCall(h, "openai_chat") THEN ChatTranslate(msg) ELSE PlanTranslate(msg)

\* C9: for both tools the translated sequence sent downstream has the length
\* of the input sequence, its i-th element is the translation of the i-th
\* input message alone, and an input message with string content and role
\* system, user or assistant is sent with identical role and content.
C9_PositionWise ==
    \A h \in Handlers :
        ((IsCall(h, "openai_chat") \/ IsCall(h, "openai_plan")) /\ IssuedCall(h)) =>
            /\ Len(sent[h].messages) = Len(Raw(h))
            /\ \A i \in 1..Len(Raw(h)) :
                   /\ sent[h].messages[i] = C9_Translator(h, Raw(h)[i])
                   /\ ( /\ "str" \in DOMAIN Raw(h)[i].content
                        /\ Raw(h)[i].role \in {"system", "user", "assistant"} ) =>
                          sent[h].messages[i] = [role |-> Raw(h)[i].role,
                                                 content |-> Raw(h)[i].content]

C9_Witness ==
    \E h \in Handlers :
        /\ IsCall(h, "openai_chat") /\ IssuedCall(h)
        /\ Len(Raw(h)) = 2
        /\ Raw(h)[1] = [role |-> "system", content |-> [str |-> "hi"]]
        /\ Raw(h)[2].role = "user"
        /\ sent[h].messages = Raw(h)

\* ------------------------------------------------------------------- C10
\* C10 (as stated): request handling is one-in-flight: while one handler is
\* suspended at its downstream call no other request's handling starts.
C10_Original ==
    [][\A h \in Handlers :
          pc[h] = "awaiting" =>
              \A g \in Handlers \ {h} : pc[g] = "idle" => pc'[g] = "idle"]_vars

\* C10 (amended): handlers are not serialised: a second request's handler can
\* start while the first is suspended at its downstream call. Overlapping
\* invocations are independent: a step of one invocation leaves the request,
\* the pending downstream call, its result and the response of every other
\* invocation unchanged.
C10_Independent ==
    [][\A h \in Handlers :
          pc'[h] # pc[h] =>
              \A g \in Handlers \ {h} :
                  /\ pc'[g] = pc[g] /\ req'[g] = req[g] /\ sent'[g] = sent[g]
                  /\ completion'[g] = completion[g] /\ resp'[g] = resp[g]
                  /\ calls'[g] = calls[g]]_vars

C10_Witness ==
    \E h, g \in Handlers :
        /\ h # g
        /\ pc[h] = "awaiting" /\ pc[g] = "awaiting"
        /\ sent[h] # sent[g]

\* ------------------------------------------------------------------- C11
\* the text fields of an array of parts joined, in order, into one string
RECURSIVE TextsJoined(_)
TextsJoined(parts) ==
    IF Len(parts) = 0 THEN ""
    ELSE IF Len(parts) = 1 THEN parts[1].text
    ELSE parts[1].text \o "\n" \o TextsJoined(Tail(parts))

\* C11 (as stated): in an openai_chat call every input message whose content
\* is an array of text parts, whatever its role, is sent with the parts'
\* texts joined into one string; no message is sent with array content.
C11_Original ==
    \A h \in Handlers :
        (IsCall(h, "openai_chat") /\ IssuedCall(h)) =>
            \A i \in 1..Len(Raw(h)) :
                /\ "arr" \in DOMAIN Raw(h)[i].content =>
                       sent[h].messages[i].content =
                           [str |-> TextsJoined(Raw(h)[i].content.arr)]
                /\ "arr" \notin DOMAIN sent[h].messages[i].content

\* C11 (amended): in an openai_chat call an input message with role
\* developer whose content is an array of text parts is sent with the parts'
\* texts joined into one string; an input message of any other role whose
\* content is an array is sent with that array unchanged, so a message
\* reaches the downstream call with array content exactly when a
\* non-developer input message had array content.
C11_ChatArrayContent ==
    \A h \in Handlers :
        (IsCall(h, "openai_chat") /\ IssuedCall(h)) =>
            \A i \in 1..Len(Raw(h)) :
                /\ ("arr" \in DOMAIN Raw(h)[i].content /\ Raw(h)[i].role = "developer") =>
                       sent[h].messages[i].content =
                           [str |-> TextsJoined(Raw(h)[i].content.arr)]
                /\ ("arr" \in DOMAIN Raw(h)[i].content /\ Raw(h)[i].role # "developer") =>
                       sent[h].messages[i].content = Raw(h)[i].content
                /\ "arr" \in DOMAIN sent[h].messages[i].content <=>
                       ("arr" \in DOMAIN Raw(h)[i].content /\ Raw(h)[i].role # "developer")

C11_Witness ==
    \E h \in Handlers :
        /\ IsCall(h, "openai_chat") /\ IssuedCall(h)
        /\ Len(Raw(h)) = 2
        /\ Raw(h)[1].role = "developer" /\ "arr" \in DOMAIN Raw(h)[1].content
        /\ Raw(h)[2].role = "user" /\ "arr" \in DOMAIN Raw(h)[2].content
        /\ sent[h].messages[1].content = [str |-> "a\nb"]
        /\ "arr" \in DOMAIN sent[h].messages[2].content

\* ------------------------------------------------------------------- C12
\* C12: in an openai_chat call every input message with role developer is
\* sent as an assistant message whose content is the caller's string
\* verbatim, or the parts' texts joined into one string when the content was
\* an array of parts; no developer message is sent by a chat call.
C12_ChatDeveloperDownConverted ==
    \A h \in Handlers :
        (IsCall(h, "openai_chat") /\ IssuedCall(h)) =>
            /\ \A i \in 1..Len(Raw(h)) :
                   Raw(h)[i].role = "developer" =>
                       /\ sent[h].messages[i].role = "assistant"
                       /\ "str" \in DOMAIN Raw(h)[i].content =>
                              sent[h].messages[i].content = Raw(h)[i].content
                       /\ "arr" \in DOMAIN Raw(h)[i].content =>
                              sent[h].messages[i].content =
                                  [str |-> TextsJoined(Raw(h)[i].content.arr)]
                       /\ "str" \in DOMAIN sent[h].messages[i].content
            /\ \A i \in 1..Len(sent[h].messages) : sent[h].messages[i].role # "developer"

C12_Witness ==
    \E h \in Handlers :
        /\ IsCall(h, "openai_chat") /\ IssuedCall(h)
        /\ Len(Raw(h)) = 2
        /\ Raw(h)[1] = [role |-> "developer", content |-> [str |-> "hi"]]
        /\ Raw(h)[2].role = "developer" /\ "arr" \in DOMAIN Raw(h)[2].content
        /\ sent[h].messages[1] = [role |-> "assistant", content |-> [str |-> "hi"]]
        /\ sent[h].messages[2] = [role |-> "assistant", content |-> [str |-> "a\nb"]]

\* ------------------------------------------------------------------- C13
\* the input messages of openai_plan that no native rule matches
C13_Unmatched(msg) ==
    /\ msg.role # "developer"
    /\ \/ msg.role \notin {"system", "user", "assistant"}
       \/ msg.role = "system" /\ "arr" \in DOMAIN msg.content
       \/ "str" \notin DOMAIN msg.content /\ "arr" \notin DOMAIN msg.content

\* C13: in an openai_plan call every input message that no native rule
\* matches is sent as a user message whose content is the original string
\* when the content was a string and "Invalid content format" otherwise; such
\* a message does not turn the call into a domain failure.
C13_PlanFallback ==
    \A h \in Handlers :
        ( /\ IsCall(h, "openai_plan") /\ HasMessageArray(h)
          /\ C5_EffectiveModel(h) \in {"o1-preview", "o1-mini", "o1-2024-12-17"} ) =>
            /\ IssuedCall(h)
            /\ (pc[h] = "returned" /\ ~DownstreamRaised(h)) => IsSuccess(resp[h])
            /\ \A i \in 1..Len(Raw(h)) :
                   C13_Unmatched(Raw(h)[i]) =>
                       /\ sent[h].messages[i].role = "user"
                       /\ sent[h].messages[i].content =
                              IF "str" \in DOMAIN Raw(h)[i].content
                              THEN Raw(h)[i].content
                              ELSE [str |-> "Invalid content format"]

C13_Witness ==
    \E h \in Handlers :
        /\ IsCall(h, "openai_plan") /\ IssuedCall(h)
        /\ Len(Raw(h)) = 2
        /\ Raw(h)[1] = [role |-> "tool", content |-> [str |-> "hi"]]
        /\ Raw(h)[2].role = "system" /\ "arr" \in DOMAIN Raw(h)[2].content
        /\ sent[h].messages[1] = [role |-> "user", content |-> [str |-> "hi"]]
        /\ sent[h].messages[2] = [role |-> "user", content |-> [str |-> "Invalid content format"]]
        /\ pc[h] = "returned" /\ IsSuccess(resp[h])

\* ------------------------------------------------------------------- C14
\* C14: every downstream call of openai_chat carries the validated model of
\* the caller with temperature = 0.7 and max_tokens = 2000, whatever other
\* arguments the caller passed, and never carries reasoning_effort or
\* response_format.
C14_ChatFixedOptions ==
    \A h \in Handlers :
        (IsCall(h, "openai_chat") /\ IssuedCall(h)) =>
            /\ "model" \in DOMAIN Args(h)
            /\ sent[h].model = Args(h).model
            /\ sent[h].model \in {"gpt-4o", "gpt-4o-mini", "o1-preview", "o1-mini", "o1", "o3-mini"}
            /\ "temperature" \in DOMAIN sent[h] /\ sent[h].temperature = "0.7"
            /\ "max_tokens" \in DOMAIN sent[h] /\ sent[h].max_tokens = 2000
            /\ "reasoning_effort" \notin DOMAIN sent[h]
            /\ "response_format" \notin DOMAIN sent[h]

C14_Witness ==
    \E h \in Handlers :
        /\ IsCall(h, "openai_chat") /\ IssuedCall(h)
        /\ {"temperature", "max_tokens", "reasoning_effort", "response_format"}
               \subseteq DOMAIN Args(h)
        /\ Args(h).temperature = "1.5" /\ Args(h).max_tokens = 50
        /\ sent[h].temperature = "0.7" /\ sent[h].max_tokens = 2000

\* ------------------------------------------------------------------- C15
C15_EffectiveEffort(h) ==
    IF "reasoning_effort" \in DOMAIN Args(h) THEN Args(h).reasoning_effort ELSE "low"

\* C15: every downstream call of openai_plan carries no temperature and no
\* max_tokens, and carries reasoning_effort exactly when the effective value
\* (the caller's, or "low" when the caller omitted it) is not empty: a call
\* that omits it sends "low", only an explicitly empty value omits the option.
C15_PlanOptions ==
    \A h \in Handlers :
        (IsCall(h, "openai_plan") /\ IssuedCall(h)) =>
            /\ "temperature" \notin DOMAIN sent[h]
            /\ "max_tokens" \notin DOMAIN sent[h]
            /\ "reasoning_effort" \in DOMAIN sent[h] <=> C15_EffectiveEffort(h) # ""
            /\ C15_EffectiveEffort(h) # "" =>
                   sent[h].reasoning_effort = C15_EffectiveEffort(h)
            /\ "reasoning_effort" \notin DOMAIN Args(h) =>
                   ("reasoning_effort" \in DOMAIN sent[h] /\ sent[h].reasoning_effort = "low")

C15_Witness ==
    \E h \in Handlers :
        /\ IsCall(h, "openai_plan") /\ IssuedCall(h)
        /\ {"temperature", "max_tokens", "reasoning_effort"} \subseteq DOMAIN Args(h)
        /\ Args(h).reasoning_effort = ""
        /\ "reasoning_effort" \notin DOMAIN sent[h]

\* ------------------------------------------------------------------- C16
\* the request fails before any downstream call: unknown tool name, missing
\* or malformed arguments, or a model the tool's validation rejects
C16_FailsBeforeCall(h) ==
    \/ req[h].params.name \notin {"openai_chat", "openai_plan"}
    \/ ~HasMessageArray(h)
    \/ IsCall(h, "openai_chat") /\
           \/ "model" \notin DOMAIN Args(h)
           \/ Args(h).model \notin {"gpt-4o", "gpt-4o-mini", "o1-preview", "o1-mini", "o1", "o3-mini"}
    \/ IsCall(h, "openai_plan") /\
           C5_EffectiveModel(h) \notin {"o1-preview", "o1-mini", "o1-2024-12-17"}

\* C16: each CallTool request causes at most one downstream call, and none
\* when the model validation fails, the arguments are malformed or the tool
\* name is unknown; the model is validated before the call is issued, and a
\* failed downstream call is not retried.
C16_AtMostOneCall ==
    \A h \in Handlers :
        (pc[h] # "idle" /\ req[h].method = "tools/call") =>
            /\ calls[h] <= 1
            /\ C16_FailsBeforeCall(h) => (calls[h] = 0 /\ ~IssuedCall(h))
            /\ calls[h] = 1 <=> IssuedCall(h)
            /\ DownstreamRaised(h) =>
                   (calls[h] = 1 /\ pc[h] = "returned" /\ IsDomainFailure(resp[h]))

C16_Witness ==
    \E h \in Handlers :
        /\ IsCall(h, "openai_chat") /\ DownstreamRaised(h)
        /\ pc[h] = "returned" /\ calls[h] = 1

====
